---- MODULE Spec2Model ----
(***************************************************************************)
(* Model of the layered secrets resolution (SecretsManager) and of the     *)
(* three service adapters (SupabaseIntegration, GitHubIntegration,         *)
(* GCloudIntegration) of pulse-docs' MCP server.                           *)
(*                                                                         *)
(* Strings stand for JavaScript values: Undef is `undefined`, "" is the    *)
(* empty string, any other string is a non-empty (truthy) string.  Throw   *)
(* marks a call that raises instead of returning.                          *)
(***************************************************************************)
EXTENDS Naturals, Sequences, FiniteSets, TLC

Undef == "undefined"
Throw == "<throw>"

\* JavaScript truthiness of a string-or-undefined value.
Truthy(v) == v # Undef /\ v # ""

\* `a || b` on string-or-undefined values.
OrElse(a, b) == IF Truthy(a) THEN a ELSE b

(***************************************************************************)
(* The sources.                                                            *)
(***************************************************************************)

\* The four secret ids loadFromSecretManager asks for, in the order asked.
SecretIds == <<"supabase-url", "supabase-anon-key", "supabase-service-role-key", "github-token">>

SecretIdSet == {SecretIds[i] : i \in 1..Len(SecretIds)}

\* What accessSecretVersion can do for one name: reject, answer without a
\* payload, answer with an empty payload, answer with the stored text.
StoreOutcomes == {"reject", "nopayload", "empty", "value"}

\* The text the managed store holds under a secret id.
StoreValue(secretId) == "sm:" \o secretId

\* Outputs of the three gcloud commands (already trimmed), or Throw.
ProjectOutputs == {Throw, "", "cli-project"}
AdcOutputs == {Throw, "", "/home/u/adc.json"}
TokenOutputs == {Throw, "", "ya29.cli-token"}

\* fs.existsSync(adcPath): `fs` is bound to fs.promises (part_000:2), which
\* has no existsSync, so the call can raise; true/false cover a build where
\* the name resolves.
ExistsOutcomes == {"true", "false", Throw}

\* new SecretManagerServiceClient() / new Storage(): returns or raises.
CtorOutcomes == {"ok", Throw}

\* process.env as loadFromEnvironment reads it.
EnvNames == {"SUPABASE_URL", "SUPABASE_ANON_KEY", "SUPABASE_SERVICE_ROLE_KEY", "GITHUB_TOKEN", "GCLOUD_PROJECT"}

EnvValues(n) ==
  CASE n = "SUPABASE_URL" -> {Undef, "", "https://env.supabase.co"}
    [] n = "SUPABASE_ANON_KEY" -> {Undef, "", "env-anon"}
    [] n = "SUPABASE_SERVICE_ROLE_KEY" -> {Undef, "env-service"}
    [] n = "GITHUB_TOKEN" -> {Undef, "abc123"}
    [] n = "GCLOUD_PROJECT" -> {Undef, "demo"}

EnvSpace == {e \in [EnvNames -> {Undef, "", "https://env.supabase.co", "env-anon", "env-service", "abc123", "demo"}] :
               \A n \in EnvNames : e[n] \in EnvValues(n)}

(***************************************************************************)
(* The credential snapshot (interface Secrets, Partial<Secrets>).          *)
(* An absent sub-record has present = FALSE and every field Undef, so that *)
(* `this.secrets.x?.f` is simply x.f.                                      *)
(***************************************************************************)

NoSupabase == [present |-> FALSE, url |-> Undef, anonKey |-> Undef, serviceRoleKey |-> Undef]
NoGitHub == [present |-> FALSE, token |-> Undef]
NoGCloud == [present |-> FALSE, projectId |-> Undef, applicationCredentials |-> Undef]

MkSupabase(u, a, s) == [present |-> TRUE, url |-> u, anonKey |-> a, serviceRoleKey |-> s]
MkGitHub(t) == [present |-> TRUE, token |-> t]
MkGCloud(p, c) == [present |-> TRUE, projectId |-> p, applicationCredentials |-> c]

VARIABLES
  env,           \* process.env
  secrets,       \* SecretsManager.secrets: [supabase, github, gcloud]
  secretClient,  \* SecretsManager.secretClient is set
  pc,            \* where the resolver is: "new", "idle", a stage of loadSecrets, "done"
  fetched,       \* per secret id: how its fetch ended in the current load and what getSecret returned
  cliWorked,     \* some gcloud command run by the resolver has returned normally
  raised,        \* an exception escaped a method of the resolver
  stageLog,      \* the stages of the current load, "+" at their start and "-" at their end
  tokenCmd,      \* the current load ran the token command: "none", or with the token "unset" or "set"
  client,        \* SupabaseIntegration.client is set
  octokit,       \* GitHubIntegration.octokit is set
  gc,            \* GCloudIntegration: [storage, secretClient, projectId]
  initOk,        \* the adapters whose initialize() has returned true
  last,          \* the adapter call made last and how it ended
  qargs,         \* the arguments of the database call being made
  qcalls,        \* the calls made on the database client's request builder, in order
  script,        \* the run of setup.sh / setup_repos.sh
  hist           \* what the resolver's sources answered, kept for the properties that ask about it

rvars == <<env, secrets, secretClient, pc, fetched, cliWorked, raised, stageLog, tokenCmd>>
avars == <<client, octokit, gc, initOk, last>>
qvars == <<qargs, qcalls>>
vars == <<env, secrets, secretClient, pc, fetched, cliWorked, raised, stageLog, tokenCmd,
          client, octokit, gc, initOk, last, qargs, qcalls, script, hist>>

NotFetched == [outcome |-> "none", value |-> Undef]
NoneFetched == [n \in SecretIdSet |-> NotFetched]

(***************************************************************************)
(* SecretsManager                                                          *)
(***************************************************************************)

\* initializeGCloud (called by the constructor): the snapshot's gcloud record
\* and whether secretClient was constructed, for the outcomes of the two CLI
\* commands, of the file check and of the client constructor.  Every raise
\* inside the try block ends the block in its catch; assignments made before
\* the raise stay.
InitializeGCloud(projectOut, adcOut, existsOut, ctorOut) ==
  IF projectOut = Throw THEN [gcloud |-> NoGCloud, client |-> FALSE, raised |-> FALSE]
  ELSE IF ~Truthy(projectOut) THEN [gcloud |-> NoGCloud, client |-> FALSE, raised |-> FALSE]
  ELSE IF adcOut = Throw THEN [gcloud |-> MkGCloud(projectOut, Undef), client |-> FALSE, raised |-> FALSE]
  ELSE IF Truthy(adcOut) /\ existsOut = Throw
    THEN [gcloud |-> MkGCloud(projectOut, Undef), client |-> FALSE, raised |-> FALSE]
  ELSE IF ctorOut = Throw
    THEN [gcloud |-> MkGCloud(projectOut, IF Truthy(adcOut) /\ existsOut = "true" THEN adcOut ELSE Undef),
          client |-> FALSE, raised |-> FALSE]
  ELSE [gcloud |-> MkGCloud(projectOut, IF Truthy(adcOut) /\ existsOut = "true" THEN adcOut ELSE Undef),
        client |-> TRUE, raised |-> FALSE]

\* getSecret without its catch: a rejection propagates to the caller.
GetSecretRethrow(secretId, outcome) ==
  CASE outcome = "reject" -> Throw
    [] outcome = "nopayload" -> Undef
    [] outcome = "empty" -> ""
    [] outcome = "value" -> StoreValue(secretId)

\* getSecret: the value returned for one outcome of accessSecretVersion.
\* The catch turns a rejection into undefined.
GetSecret(secretId, outcome) ==
  CASE outcome = "reject" -> Undef
    [] outcome = "nopayload" -> Undef
    [] outcome = "empty" -> ""
    [] outcome = "value" -> StoreValue(secretId)

\* loadFromGCloudConfig without its catch: a failing command propagates.
LoadFromGCloudConfigNoCatch(github, tokenOut) ==
  IF tokenOut = Throw THEN [github |-> github, raised |-> TRUE]
  ELSE IF Truthy(tokenOut) /\ ~Truthy(github.token) THEN [github |-> MkGitHub(tokenOut), raised |-> FALSE]
  ELSE [github |-> github, raised |-> FALSE]

\* loadFromGCloudConfig without the test that the token is still unset.
LoadFromGCloudConfigOverwrite(github, tokenOut) ==
  IF tokenOut = Throw THEN [github |-> github, raised |-> FALSE]
  ELSE IF Truthy(tokenOut) THEN [github |-> MkGitHub(tokenOut), raised |-> FALSE]
  ELSE [github |-> github, raised |-> FALSE]

\* loadFromGCloudConfig with the test on the token negated: the token is
\* assigned only when one is already set.
LoadFromGCloudConfigInverted(github, tokenOut) ==
  IF tokenOut = Throw THEN [github |-> github, raised |-> FALSE]
  ELSE IF Truthy(tokenOut) /\ Truthy(github.token) THEN [github |-> MkGitHub(tokenOut), raised |-> FALSE]
  ELSE [github |-> github, raised |-> FALSE]

\* loadFromGCloudConfig: the github record after the token command; the
\* catch absorbs a failing command.
LoadFromGCloudConfig(github, tokenOut) ==
  IF tokenOut = Throw THEN [github |-> github, raised |-> FALSE]
  ELSE IF Truthy(tokenOut) /\ ~Truthy(github.token) THEN [github |-> MkGitHub(tokenOut), raised |-> FALSE]
  ELSE [github |-> github, raised |-> FALSE]

\* loadFromEnvironment without the "not already loaded" test on supabase.
LoadFromEnvironmentOverwrite(s, e) ==
  [supabase |->
     IF Truthy(e["SUPABASE_URL"])
       THEN MkSupabase(e["SUPABASE_URL"], OrElse(e["SUPABASE_ANON_KEY"], ""), e["SUPABASE_SERVICE_ROLE_KEY"])
       ELSE s.supabase,
   github |->
     IF ~Truthy(s.github.token) /\ Truthy(e["GITHUB_TOKEN"])
       THEN MkGitHub(e["GITHUB_TOKEN"])
       ELSE s.github,
   gcloud |->
     IF ~Truthy(s.gcloud.projectId) /\ Truthy(e["GCLOUD_PROJECT"])
       THEN MkGCloud(e["GCLOUD_PROJECT"], s.gcloud.applicationCredentials)
       ELSE s.gcloud]

\* loadFromEnvironment with the two supabase key variables exchanged.
LoadFromEnvironmentSwappedKeys(s, e) ==
  [supabase |->
     IF ~Truthy(s.supabase.url) /\ Truthy(e["SUPABASE_URL"])
       THEN MkSupabase(e["SUPABASE_URL"], OrElse(e["SUPABASE_SERVICE_ROLE_KEY"], ""), e["SUPABASE_ANON_KEY"])
       ELSE s.supabase,
   github |->
     IF ~Truthy(s.github.token) /\ Truthy(e["GITHUB_TOKEN"])
       THEN MkGitHub(e["GITHUB_TOKEN"])
       ELSE s.github,
   gcloud |->
     IF ~Truthy(s.gcloud.projectId) /\ Truthy(e["GCLOUD_PROJECT"])
       THEN MkGCloud(e["GCLOUD_PROJECT"], s.gcloud.applicationCredentials)
       ELSE s.gcloud]

\* loadFromEnvironment without the GCLOUD_PROJECT fallback.
LoadFromEnvironmentNoProject(s, e) ==
  [supabase |->
     IF ~Truthy(s.supabase.url) /\ Truthy(e["SUPABASE_URL"])
       THEN MkSupabase(e["SUPABASE_URL"], OrElse(e["SUPABASE_ANON_KEY"], ""), e["SUPABASE_SERVICE_ROLE_KEY"])
       ELSE s.supabase,
   github |->
     IF ~Truthy(s.github.token) /\ Truthy(e["GITHUB_TOKEN"])
       THEN MkGitHub(e["GITHUB_TOKEN"])
       ELSE s.github,
   gcloud |-> s.gcloud]

\* loadFromEnvironment replacing the project id whenever GCLOUD_PROJECT is set.
LoadFromEnvironmentOverwriteProject(s, e) ==
  [supabase |->
     IF ~Truthy(s.supabase.url) /\ Truthy(e["SUPABASE_URL"])
       THEN MkSupabase(e["SUPABASE_URL"], OrElse(e["SUPABASE_ANON_KEY"], ""), e["SUPABASE_SERVICE_ROLE_KEY"])
       ELSE s.supabase,
   github |->
     IF ~Truthy(s.github.token) /\ Truthy(e["GITHUB_TOKEN"])
       THEN MkGitHub(e["GITHUB_TOKEN"])
       ELSE s.github,
   gcloud |->
     IF Truthy(e["GCLOUD_PROJECT"])
       THEN MkGCloud(e["GCLOUD_PROJECT"], s.gcloud.applicationCredentials)
       ELSE s.gcloud]

\* loadFromEnvironment filling each missing supabase field on its own.
LoadFromEnvironmentFieldwise(s, e) ==
  [supabase |->
     IF Truthy(s.supabase.url) \/ Truthy(e["SUPABASE_URL"])
       THEN MkSupabase(OrElse(s.supabase.url, e["SUPABASE_URL"]),
                       OrElse(s.supabase.anonKey, OrElse(e["SUPABASE_ANON_KEY"], "")),
                       OrElse(s.supabase.serviceRoleKey, e["SUPABASE_SERVICE_ROLE_KEY"]))
       ELSE s.supabase,
   github |->
     IF ~Truthy(s.github.token) /\ Truthy(e["GITHUB_TOKEN"])
       THEN MkGitHub(e["GITHUB_TOKEN"])
       ELSE s.github,
   gcloud |->
     IF ~Truthy(s.gcloud.projectId) /\ Truthy(e["GCLOUD_PROJECT"])
       THEN MkGCloud(e["GCLOUD_PROJECT"], s.gcloud.applicationCredentials)
       ELSE s.gcloud]

\* loadFromEnvironment: the snapshot after the environment fallback.
LoadFromEnvironment(s, e) ==
  [supabase |->
     IF ~Truthy(s.supabase.url) /\ Truthy(e["SUPABASE_URL"])
       THEN MkSupabase(e["SUPABASE_URL"], OrElse(e["SUPABASE_ANON_KEY"], ""), e["SUPABASE_SERVICE_ROLE_KEY"])
       ELSE s.supabase,
   github |->
     IF ~Truthy(s.github.token) /\ Truthy(e["GITHUB_TOKEN"])
       THEN MkGitHub(e["GITHUB_TOKEN"])
       ELSE s.github,
   gcloud |->
     IF ~Truthy(s.gcloud.projectId) /\ Truthy(e["GCLOUD_PROJECT"])
       THEN MkGCloud(e["GCLOUD_PROJECT"], s.gcloud.applicationCredentials)
       ELSE s.gcloud]

getSupabaseConfig == secrets.supabase
getGitHubToken == secrets.github.token
getGCloudConfig == secrets.gcloud
\* hasSupabase testing the url alone.
hasSupabaseUrlOnly == Truthy(secrets.supabase.url)

hasSupabase == Truthy(secrets.supabase.url) /\ Truthy(secrets.supabase.anonKey)
hasGitHub == Truthy(secrets.github.token)
hasGCloud == Truthy(secrets.gcloud.projectId)

\* new SecretsManager(), the gcloud commands answering from the given sets.
ConstructorWith(projectOuts, adcOuts, existsOuts, ctorOuts) ==
  /\ pc = "new"
  /\ \E projectOut \in projectOuts, adcOut \in adcOuts, existsOut \in existsOuts, ctorOut \in ctorOuts :
       LET r == InitializeGCloud(projectOut, adcOut, existsOut, ctorOut) IN
         /\ secrets' = [secrets EXCEPT !.gcloud = r.gcloud]
         /\ secretClient' = r.client
         /\ raised' = (raised \/ r.raised)
         /\ cliWorked' = (cliWorked \/ projectOut # Throw)
  /\ pc' = "idle"
  /\ UNCHANGED <<env, fetched, stageLog, tokenCmd>>

\* loadSecrets() is called.  With a store handle and a project id it enters
\* loadFromSecretManager and suspends on the first fetch; otherwise it runs
\* loadFromGCloudConfig at once and suspends on its promise.
LoadSecretsWith(tokenOuts) ==
  /\ pc = "idle"
  /\ fetched' = NoneFetched
  /\ IF secretClient /\ Truthy(secrets.gcloud.projectId)
       THEN /\ pc' = "sm1"
            /\ stageLog' = <<"store+">>
            /\ tokenCmd' = "none"
            /\ UNCHANGED <<secrets, cliWorked, raised>>
       ELSE \E tokenOut \in tokenOuts :
              LET r == LoadFromGCloudConfig(secrets.github, tokenOut) IN
                /\ secrets' = [secrets EXCEPT !.github = r.github]
                /\ raised' = (raised \/ r.raised)
                /\ cliWorked' = (cliWorked \/ tokenOut # Throw)
                /\ pc' = IF r.raised THEN "done" ELSE "env"
                /\ stageLog' = IF r.raised THEN <<"cli+">> ELSE <<"cli+", "cli-">>
                /\ tokenCmd' = IF Truthy(secrets.github.token) THEN "set" ELSE "unset"
  /\ UNCHANGED <<env, secretClient>>

\* The position of loadFromSecretManager while fetch number i is awaited.
SmPc(i) == CASE i = 1 -> "sm1" [] i = 2 -> "sm2" [] i = 3 -> "sm3" [] i = 4 -> "sm4"

\* loadFromSecretManager resumes with the answer to fetch number i.  After
\* the third answer the supabase record is assigned, after the fourth the
\* github record; a raise out of getSecret ends the stage in its catch.
SecretFetchedWith(i, outcomes) ==
  /\ pc = SmPc(i)
  /\ \E outcome \in outcomes :
       LET id == SecretIds[i]
           v == GetSecret(id, outcome)
           f == [fetched EXCEPT ![id] = [outcome |-> outcome, value |-> v]]
       IN IF v = Throw
            THEN /\ pc' = "cli"
                 /\ stageLog' = Append(stageLog, "store-")
                 /\ UNCHANGED <<fetched, secrets>>
            ELSE /\ fetched' = f
                 /\ pc' = IF i < 4 THEN SmPc(i + 1) ELSE "cli"
                 /\ stageLog' = IF i < 4 THEN stageLog ELSE Append(stageLog, "store-")
                 /\ secrets' =
                      IF i = 3 /\ Truthy(f["supabase-url"].value) /\ Truthy(f["supabase-anon-key"].value)
                        THEN [secrets EXCEPT !.supabase =
                                MkSupabase(f["supabase-url"].value, f["supabase-anon-key"].value,
                                           f["supabase-service-role-key"].value)]
                      ELSE IF i = 4 /\ Truthy(f["github-token"].value)
                        THEN [secrets EXCEPT !.github = MkGitHub(f["github-token"].value)]
                      ELSE secrets
  /\ UNCHANGED <<env, secretClient, cliWorked, raised, tokenCmd>>

\* loadSecrets resumes after loadFromSecretManager: loadFromGCloudConfig.
GCloudConfigStageWith(tokenOuts) ==
  /\ pc = "cli"
  /\ \E tokenOut \in tokenOuts :
       LET r == LoadFromGCloudConfig(secrets.github, tokenOut) IN
         /\ secrets' = [secrets EXCEPT !.github = r.github]
         /\ raised' = (raised \/ r.raised)
         /\ cliWorked' = (cliWorked \/ tokenOut # Throw)
         /\ pc' = IF r.raised THEN "done" ELSE "env"
         /\ stageLog' = IF r.raised THEN Append(stageLog, "cli+") ELSE stageLog \o <<"cli+", "cli-">>
         /\ tokenCmd' = IF Truthy(secrets.github.token) THEN "set" ELSE "unset"
  /\ UNCHANGED <<env, secretClient, fetched>>

\* loadSecrets resumes after loadFromGCloudConfig: loadFromEnvironment, then
\* the promise of loadSecrets resolves.
EnvironmentStage ==
  /\ pc = "env"
  /\ secrets' = LoadFromEnvironment(secrets, env)
  /\ pc' = "done"
  /\ stageLog' = stageLog \o <<"env+", "env-">>
  /\ UNCHANGED <<env, secretClient, fetched, cliWorked, raised, tokenCmd>>

\* The caller of loadSecrets() continues.
LoadReturned ==
  /\ pc = "done"
  /\ pc' = "idle"
  /\ fetched' = NoneFetched
  /\ stageLog' = <<>>
  /\ tokenCmd' = "none"
  /\ UNCHANGED <<env, secrets, secretClient, cliWorked, raised>>

Constructor == ConstructorWith(ProjectOutputs, AdcOutputs, ExistsOutcomes, CtorOutcomes) /\ UNCHANGED <<avars, qvars, script, hist>>
LoadSecrets == LoadSecretsWith(TokenOutputs) /\ UNCHANGED <<avars, qvars, script, hist>>
SecretFetched(i) == SecretFetchedWith(i, StoreOutcomes) /\ UNCHANGED <<avars, qvars, script, hist>>
GCloudConfigStage == GCloudConfigStageWith(TokenOutputs) /\ UNCHANGED <<avars, qvars, script, hist>>
LoadFromEnvironmentStage == EnvironmentStage /\ UNCHANGED <<avars, qvars, script, hist>>
LoadSecretsReturned == LoadReturned /\ UNCHANGED <<avars, qvars, script, hist>>

(***************************************************************************)
(* The adapters                                                            *)
(***************************************************************************)

Adapters == {"supabase", "github", "gcloud"}

\* The operational methods of each adapter.
Ops(a) ==
  CASE a = "supabase" -> {"query", "insert", "update", "delete", "rpc"}
    [] a = "github" -> {"getRepository", "listIssues", "createIssue", "listPullRequests",
                        "createPullRequest", "getFileContent", "search"}
    [] a = "gcloud" -> {"listBucketContents", "readFile", "writeFile", "getSecret", "executeGCloudCommand"}

\* What the client library does with a request: answers or signals an error.
LibOutcomes == {"ok", "fail"}

\* What the library can do with the request of one operation: getFileContent
\* tells a 404 answer from other errors.
LibOutcomesOf(a, op) == IF op = "getFileContent" THEN LibOutcomes \cup {"fail404"} ELSE LibOutcomes

\* The message of the error the client library signals, and the path
\* argument of getFileContent.
LibMessage == "upstream: request failed"
FilePath == "docs/README.md"

NoCall == [adapter |-> "none", op |-> "none", outcome |-> "none", ext |-> FALSE,
           hadCred |-> FALSE, wasInit |-> FALSE, libOk |-> FALSE, text |-> <<>>]

\* SupabaseIntegration.initialize: the client field and the result.  A raise
\* of createClient is not caught and leaves the field as it was.
SupabaseInitialize(config, had, ctorOut) ==
  IF ~Truthy(config.url) \/ ~Truthy(config.anonKey) THEN [client |-> had, ret |-> "false"]
  ELSE IF ctorOut = Throw THEN [client |-> had, ret |-> "raise"]
  ELSE [client |-> TRUE, ret |-> "true"]

\* GitHubIntegration.initialize: the octokit field and the result.
GitHubInitialize(token, had, ctorOut) ==
  IF ~Truthy(token) THEN [octokit |-> had, ret |-> "false"]
  ELSE IF ctorOut = Throw THEN [octokit |-> had, ret |-> "raise"]
  ELSE [octokit |-> TRUE, ret |-> "true"]

\* GCloudIntegration.initialize reporting success from its catch block.
GCloudInitializeIgnoreFailure(config, g, storageCtor, secretCtor) ==
  IF ~Truthy(config.projectId) THEN [gc |-> g, ret |-> "false"]
  ELSE IF storageCtor = Throw
    THEN [gc |-> [g EXCEPT !.projectId = config.projectId], ret |-> "true"]
  ELSE IF secretCtor = Throw
    THEN [gc |-> [g EXCEPT !.projectId = config.projectId, !.storage = TRUE], ret |-> "true"]
  ELSE [gc |-> [storage |-> TRUE, secretClient |-> TRUE, projectId |-> config.projectId], ret |-> "true"]

\* GCloudIntegration.initialize: the three fields and the result.  projectId
\* is assigned before the try block; a raise of either constructor is caught
\* and keeps what was assigned before it.
GCloudInitialize(config, g, storageCtor, secretCtor) ==
  IF ~Truthy(config.projectId) THEN [gc |-> g, ret |-> "false"]
  ELSE IF storageCtor = Throw
    THEN [gc |-> [g EXCEPT !.projectId = config.projectId], ret |-> "false"]
  ELSE IF secretCtor = Throw
    THEN [gc |-> [g EXCEPT !.projectId = config.projectId, !.storage = TRUE], ret |-> "false"]
  ELSE [gc |-> [storage |-> TRUE, secretClient |-> TRUE, projectId |-> config.projectId], ret |-> "true"]

\* isAvailable() asking the resolver instead of testing the client handle.
isAvailableFromResolver(a) ==
  CASE a = "supabase" -> hasSupabase
    [] a = "github" -> hasGitHub
    [] a = "gcloud" -> hasGCloud

\* isAvailable() of each adapter.
isAvailable(a) ==
  CASE a = "supabase" -> client
    [] a = "github" -> octokit
    [] a = "gcloud" -> gc.storage /\ gc.secretClient /\ Truthy(gc.projectId)

\* The check at the head of an operational method: TRUE when the method goes
\* on to its request, FALSE when it throws its "not initialized" error.
\* executeGCloudCommand has no such check.
PassesGuard(a, op) ==
  CASE a = "supabase" -> client
    [] a = "github" -> octokit
    [] a = "gcloud" ->
         CASE op \in {"listBucketContents", "readFile", "writeFile"} -> gc.storage
           [] op = "getSecret" -> gc.secretClient /\ Truthy(gc.projectId)
           [] op = "executeGCloudCommand" -> TRUE

\* The text of the "not initialized" error of an operational method, word
\* by word.
UninitializedText(a, op) ==
  CASE a = "supabase" -> <<"Supabase", "client", "not", "initialized">>
    [] a = "github" -> <<"GitHub", "client", "not", "initialized">>
    [] a = "gcloud" ->
         IF op = "getSecret"
           THEN <<"Google", "Cloud", "Secret", "Manager", "client", "not", "initialized">>
           ELSE <<"Google", "Cloud", "Storage", "client", "not", "initialized">>

\* The text of the error an operational method fails with when the library
\* signals a failure, word by word.  The database methods wrap the message;
\* the source-hosting and storage methods let the library's error pass, but
\* getFileContent replaces a 404 and executeGCloudCommand wraps the message.
ErrorText(a, op, lib) ==
  CASE a = "supabase" ->
         IF op = "rpc" THEN <<"Supabase", "RPC", "error:", LibMessage>>
                       ELSE <<"Supabase", op, "error:", LibMessage>>
    [] a = "github" ->
         IF op = "getFileContent" /\ lib = "fail404" THEN <<"File", "not", "found:", FilePath>>
                                                     ELSE <<LibMessage>>
    [] a = "gcloud" ->
         IF op = "executeGCloudCommand" THEN <<"gcloud", "command", "failed:", LibMessage>>
                                        ELSE <<LibMessage>>

\* An operational method: how the call ends, whether it issued a request to
\* the service or started a subprocess, and the text of its error.
Operate(a, op, lib) ==
  IF ~PassesGuard(a, op) THEN [outcome |-> "uninitialized", ext |-> FALSE, text |-> UninitializedText(a, op)]
  ELSE IF lib = "ok" THEN [outcome |-> "ok", ext |-> TRUE, text |-> <<>>]
  ELSE [outcome |-> "error", ext |-> TRUE, text |-> ErrorText(a, op, lib)]

\* The resolver's availability predicate matching an adapter.
HasCredential(a) ==
  CASE a = "supabase" -> hasSupabase
    [] a = "github" -> hasGitHub
    [] a = "gcloud" -> hasGCloud

Called(a, op, outcome, ext, libOk, text) ==
  [adapter |-> a, op |-> op, outcome |-> outcome, ext |-> ext,
   hadCred |-> HasCredential(a), wasInit |-> a \in initOk, libOk |-> libOk, text |-> text]

\* supabase.initialize()
SupabaseInitializeCall ==
  /\ pc # "new"
  /\ \E ctorOut \in CtorOutcomes :
       LET r == SupabaseInitialize(getSupabaseConfig, client, ctorOut) IN
         /\ client' = r.client
         /\ initOk' = IF r.ret = "true" THEN initOk \cup {"supabase"} ELSE initOk
         /\ last' = Called("supabase", "initialize", r.ret, FALSE, ctorOut = "ok", <<>>)
  /\ UNCHANGED <<octokit, gc>>
  /\ UNCHANGED <<rvars, qvars, script, hist>>

\* github.initialize()
GitHubInitializeCall ==
  /\ pc # "new"
  /\ \E ctorOut \in CtorOutcomes :
       LET r == GitHubInitialize(getGitHubToken, octokit, ctorOut) IN
         /\ octokit' = r.octokit
         /\ initOk' = IF r.ret = "true" THEN initOk \cup {"github"} ELSE initOk
         /\ last' = Called("github", "initialize", r.ret, FALSE, ctorOut = "ok", <<>>)
  /\ UNCHANGED <<client, gc>>
  /\ UNCHANGED <<rvars, qvars, script, hist>>

\* gcloud.initialize()
GCloudInitializeCall ==
  /\ pc # "new"
  /\ \E storageCtor \in CtorOutcomes, secretCtor \in CtorOutcomes :
       LET r == GCloudInitialize(getGCloudConfig, gc, storageCtor, secretCtor) IN
         /\ gc' = r.gc
         /\ initOk' = IF r.ret = "true" THEN initOk \cup {"gcloud"} ELSE initOk
         /\ last' = Called("gcloud", "initialize", r.ret, FALSE, storageCtor = "ok" /\ secretCtor = "ok", <<>>)
  /\ UNCHANGED <<client, octokit>>
  /\ UNCHANGED <<rvars, qvars, script, hist>>

\* Any operational method of adapter a is called.
OperationCall(a) ==
  /\ pc # "new"
  /\ \E op \in Ops(a) : \E lib \in LibOutcomesOf(a, op) :
       LET r == Operate(a, op, lib) IN
         last' = Called(a, op, r.outcome, r.ext, lib = "ok", r.text)
  /\ UNCHANGED <<client, octokit, gc, initOk>>
  /\ UNCHANGED <<rvars, qvars, script, hist>>

AInitState ==
  /\ client = FALSE
  /\ octokit = FALSE
  /\ gc = [storage |-> FALSE, secretClient |-> FALSE, projectId |-> Undef]
  /\ initOk = {}
  /\ last = NoCall

RInitState ==
  /\ secrets = [supabase |-> NoSupabase, github |-> NoGitHub, gcloud |-> NoGCloud]
  /\ secretClient = FALSE
  /\ pc = "new"
  /\ fetched = NoneFetched
  /\ cliWorked = FALSE
  /\ raised = FALSE
  /\ stageLog = <<>>
  /\ tokenCmd = "none"

\* No database call is being built.
QIdle ==
  /\ qargs = [op |-> "none"]
  /\ qcalls = <<>>

\* No script is running.
ScriptIdle == script = [pc |-> "none"]

\* Nothing is kept about the sources.
NoHist == [kept |-> FALSE]
HistIdle == hist = NoHist

(***************************************************************************)
(* Spec: the resolver alone, over every combination of source values.      *)
(***************************************************************************)

Init ==
  /\ env \in EnvSpace
  /\ RInitState
  /\ AInitState
  /\ QIdle
  /\ ScriptIdle
  /\ HistIdle

Next ==
  \/ Constructor
  \/ LoadSecrets
  \/ \E i \in 1..4 : SecretFetched(i)
  \/ GCloudConfigStage
  \/ LoadFromEnvironmentStage
  \/ LoadSecretsReturned

Spec == Init /\ [][Next]_vars

(***************************************************************************)
(* Properties                                                              *)
(***************************************************************************)

\* The store answered the fetch of this id with its text in the current load.
StoreResolved(id) == fetched[id].outcome = "value"

\* C1: when the managed-store stage of a load resolved both supabase-url and
\* supabase-anon-key, the record getSupabaseConfig() returns once loadSecrets()
\* has finished holds exactly the store's url and anon key, whatever
\* SUPABASE_URL and SUPABASE_ANON_KEY are.
C1_StorePrecedesEnvironment ==
  (pc = "done" /\ StoreResolved("supabase-url") /\ StoreResolved("supabase-anon-key"))
    => /\ getSupabaseConfig.present
       /\ getSupabaseConfig.url = StoreValue("supabase-url")
       /\ getSupabaseConfig.anonKey = StoreValue("supabase-anon-key")

\* A load has finished in which the store resolved url and key while the
\* environment names another url and another key.
C1_Witness ==
  /\ pc = "done"
  /\ StoreResolved("supabase-url") /\ StoreResolved("supabase-anon-key")
  /\ Truthy(env["SUPABASE_URL"]) /\ env["SUPABASE_URL"] # StoreValue("supabase-url")
  /\ Truthy(env["SUPABASE_ANON_KEY"]) /\ env["SUPABASE_ANON_KEY"] # StoreValue("supabase-anon-key")
  /\ getSupabaseConfig.url = StoreValue("supabase-url")

\* C2: in the managed-store stage a failing fetch stops no sibling: while the
\* stage runs every earlier id has been asked for, and when the stage has
\* ended all four ids have been asked for, each id the store answered holds
\* the store's text, and a resolved github-token is the snapshot's token.
C2_SiblingFetchesIndependent ==
  /\ \A i \in 1..4 : pc = SmPc(i) =>
       \A j \in 1..(i - 1) : fetched[SecretIds[j]].outcome # "none"
  /\ pc = "cli" =>
       /\ \A id \in SecretIdSet :
            /\ fetched[id].outcome # "none"
            /\ StoreResolved(id) => fetched[id].value = StoreValue(id)
       /\ StoreResolved("github-token") => getGitHubToken = StoreValue("github-token")
       /\ (StoreResolved("supabase-url") /\ StoreResolved("supabase-anon-key"))
            => getSupabaseConfig.url = StoreValue("supabase-url")

\* The stage has ended with the three supabase fetches rejected and the
\* github token taken from the store.
C2_Witness ==
  /\ pc = "cli"
  /\ fetched["supabase-url"].outcome = "reject"
  /\ fetched["supabase-anon-key"].outcome = "reject"
  /\ fetched["supabase-service-role-key"].outcome = "reject"
  /\ StoreResolved("github-token")
  /\ getGitHubToken = StoreValue("github-token")

\* C3: hasSupabase() is false in every state in which the snapshot's url or
\* its anon key is missing or empty.
C3_HasSupabaseNeedsUrlAndKey ==
  (~Truthy(secrets.supabase.url) \/ ~Truthy(secrets.supabase.anonKey)) => ~hasSupabase

\* After a load the record has the environment's url and an empty anon key.
C3_Witness ==
  /\ pc = "done"
  /\ secrets.supabase.url = env["SUPABASE_URL"]
  /\ Truthy(secrets.supabase.url)
  /\ secrets.supabase.anonKey = ""
  /\ ~hasSupabase

\* C4: a sub-record of the snapshot is present only if its required fields
\* are non-empty: supabase has url and anon key, github has a token, gcloud
\* has a project id.
C4_SubRecordsComplete ==
  /\ secrets.supabase.present => (Truthy(secrets.supabase.url) /\ Truthy(secrets.supabase.anonKey))
  /\ secrets.github.present => Truthy(secrets.github.token)
  /\ secrets.gcloud.present => Truthy(secrets.gcloud.projectId)

\* C5: a domain that is still unset when the environment stage starts and
\* whose variables are set is, after the stage, available and holds exactly
\* the environment's values.
C5_EnvironmentFallbackVerbatim ==
  [][(pc = "env" /\ pc' = "done") =>
       /\ (~secrets.supabase.present /\ Truthy(env["SUPABASE_URL"]) /\ Truthy(env["SUPABASE_ANON_KEY"])) =>
            /\ hasSupabase'
            /\ getSupabaseConfig' = MkSupabase(env["SUPABASE_URL"], env["SUPABASE_ANON_KEY"],
                                               env["SUPABASE_SERVICE_ROLE_KEY"])
       /\ (~secrets.github.present /\ Truthy(env["GITHUB_TOKEN"])) =>
            /\ hasGitHub'
            /\ getGitHubToken' = env["GITHUB_TOKEN"]
       /\ (~secrets.gcloud.present /\ Truthy(env["GCLOUD_PROJECT"])) =>
            /\ hasGCloud'
            /\ getGCloudConfig' = MkGCloud(env["GCLOUD_PROJECT"], Undef)]_vars

\* A load has finished in which no CLI command worked, no secret was fetched
\* and all three domains hold the environment's values.
C5_Witness ==
  /\ pc = "done"
  /\ ~cliWorked
  /\ \A id \in SecretIdSet : fetched[id].outcome = "none"
  /\ \A n \in EnvNames : Truthy(env[n])
  /\ hasSupabase /\ hasGitHub /\ hasGCloud
  /\ getSupabaseConfig = MkSupabase(env["SUPABASE_URL"], env["SUPABASE_ANON_KEY"], env["SUPABASE_SERVICE_ROLE_KEY"])
  /\ getGitHubToken = env["GITHUB_TOKEN"]
  /\ getGCloudConfig.projectId = env["GCLOUD_PROJECT"]

\* The environment of the end-to-end scenario.
ScenarioEnv ==
  /\ env["GCLOUD_PROJECT"] = "demo"
  /\ env["GITHUB_TOKEN"] = "abc123"
  /\ env["SUPABASE_URL"] = Undef
  /\ env["SUPABASE_ANON_KEY"] = Undef
  /\ env["SUPABASE_SERVICE_ROLE_KEY"] = Undef

\* C6: with every gcloud command failing, GCLOUD_PROJECT=demo,
\* GITHUB_TOKEN=abc123 and no supabase variable, a finished load leaves
\* hasGCloud() true with project demo, hasGitHub() true with token abc123 and
\* hasSupabase() false.
C6_EndToEndWithoutCli ==
  (pc = "done" /\ ~cliWorked /\ ScenarioEnv) =>
    /\ hasGCloud /\ getGCloudConfig.projectId = "demo"
    /\ hasGitHub /\ getGitHubToken = "abc123"
    /\ ~hasSupabase

\* The scenario's load has finished.
C6_Witness ==
  /\ pc = "done" /\ ~cliWorked /\ ScenarioEnv
  /\ getGCloudConfig.projectId = "demo"
  /\ getGitHubToken = "abc123"
  /\ ~getSupabaseConfig.present

\* C7: no exception escapes the constructor or loadSecrets(); a rejected
\* fetch is an undefined secret, and when every gcloud command failed there
\* is no store handle, no credentials path and no CLI token.
C7_ResolverNeverRaises ==
  /\ raised = FALSE
  /\ \A id \in SecretIdSet : fetched[id].outcome = "reject" => fetched[id].value = Undef
  /\ (pc # "new" /\ ~cliWorked) =>
       /\ ~secretClient
       /\ ~secrets.gcloud.present \/ secrets.gcloud.applicationCredentials = Undef
       /\ getGitHubToken \notin (TokenOutputs \ {""})

\* A load has finished although the project command and the token command
\* both failed.
C7_Witness ==
  /\ pc = "done"
  /\ ~cliWorked
  /\ raised = FALSE
  /\ ~secretClient

(***************************************************************************)
(* AdapterSpec: the three adapters over a resolver with fewer source       *)
(* values: the CLI is absent or names a project, the store delivers every  *)
(* secret, the token command fails.                                        *)
(***************************************************************************)

AdapterEnvSpace ==
  {e \in EnvSpace :
     \/ \A n \in EnvNames : e[n] = Undef
     \/ \A n \in EnvNames : Truthy(e[n])
     \/ /\ Truthy(e["SUPABASE_URL"])
        /\ \A n \in EnvNames \ {"SUPABASE_URL"} : e[n] = Undef}

AdapterInit ==
  /\ env \in AdapterEnvSpace
  /\ RInitState
  /\ AInitState
  /\ QIdle
  /\ ScriptIdle
  /\ HistIdle

AConstructor == ConstructorWith({Throw, "cli-project"}, {""}, {"false"}, {"ok"}) /\ UNCHANGED <<avars, qvars, script, hist>>
ALoadSecrets == LoadSecretsWith({Throw}) /\ UNCHANGED <<avars, qvars, script, hist>>
ASecretFetched(i) == SecretFetchedWith(i, {"value"}) /\ UNCHANGED <<avars, qvars, script, hist>>
AGCloudConfigStage == GCloudConfigStageWith({Throw}) /\ UNCHANGED <<avars, qvars, script, hist>>

AdapterNext ==
  \/ AConstructor
  \/ ALoadSecrets
  \/ \E i \in 1..4 : ASecretFetched(i)
  \/ AGCloudConfigStage
  \/ LoadFromEnvironmentStage
  \/ LoadSecretsReturned
  \/ SupabaseInitializeCall
  \/ GitHubInitializeCall
  \/ GCloudInitializeCall
  \/ \E a \in Adapters : OperationCall(a)

AdapterSpec == AdapterInit /\ [][AdapterNext]_vars

\* The operational methods that start with a test of a client handle.
GuardedOps(a) == IF a = "gcloud" THEN Ops(a) \ {"executeGCloudCommand"} ELSE Ops(a)

\* C8: an operational method called on an adapter whose initialize() has not
\* returned true fails with the "not initialized" error and issues no
\* request and no subprocess.
C8_UninitializedOperationsFail ==
  (last.op \notin {"none", "initialize"} /\ ~last.wasInit) =>
    (last.outcome = "uninitialized" /\ ~last.ext)

\* C9 as stated: initialize() returns true exactly when the resolver's
\* matching predicate is true at the call.
C9_InitializeIffCredential ==
  last.op = "initialize" => (last.outcome = "true" <=> last.hadCred)

\* The client handles an adapter holds.
HasHandle(a) ==
  CASE a = "supabase" -> client
    [] a = "github" -> octokit
    [] a = "gcloud" -> gc.storage \/ gc.secretClient

\* C9 amended: initialize() returns true exactly when the resolver's matching
\* predicate is true at the call and the construction of the client handles
\* succeeds; without the credential it returns false and the adapter has no
\* handle; after a true result the adapter is available.
C9_InitializeIffCredentialAndBuilt ==
  last.op = "initialize" =>
    /\ last.outcome = "true" <=> (last.hadCred /\ last.libOk)
    /\ ~last.hadCred => (last.outcome = "false" /\ ~HasHandle(last.adapter))
    /\ last.outcome = "true" => isAvailable(last.adapter)

\* gcloud.initialize() has returned false with the project id present,
\* because a client constructor raised.
C9_Witness ==
  /\ last.adapter = "gcloud" /\ last.op = "initialize"
  /\ last.hadCred /\ ~last.libOk
  /\ last.outcome = "false"

\* C10: isAvailable() is true exactly when the operational methods that test
\* a client handle pass that test.
C10_AvailableIffOperable ==
  \A a \in Adapters : \A op \in GuardedOps(a) : isAvailable(a) <=> PassesGuard(a, op)

\* The words of an operation's name, in lower case.
NameWords(op) ==
  CASE op = "getRepository" -> {"get", "repository"}
    [] op = "listIssues" -> {"list", "issues"}
    [] op = "createIssue" -> {"create", "issue"}
    [] op = "listPullRequests" -> {"list", "pull", "requests"}
    [] op = "createPullRequest" -> {"create", "pull", "request"}
    [] op = "getFileContent" -> {"get", "file", "content"}
    [] op = "listBucketContents" -> {"list", "bucket", "contents"}
    [] op = "readFile" -> {"read", "file"}
    [] op = "writeFile" -> {"write", "file"}
    [] op = "getSecret" -> {"get", "secret"}
    [] op = "executeGCloudCommand" -> {"execute", "gcloud", "command"}
    [] OTHER -> {op}

\* A word of an error text in lower case.
Lower(w) ==
  CASE w = "RPC" -> "rpc"
    [] w = "File" -> "file"
    [] w = "Supabase" -> "supabase"
    [] w = "GitHub" -> "github"
    [] w = "Google" -> "google"
    [] w = "Cloud" -> "cloud"
    [] OTHER -> w

Words(text) == {Lower(text[i]) : i \in 1..Len(text)}

\* C11: when the client library signals a failure to an operational method
\* of an adapter whose initialize() has returned true, the method fails, and
\* the text of its error contains a word of the operation's name and the
\* library's message.
C11_ErrorsNameOperationAndCause ==
  (last.op \notin {"none", "initialize"} /\ last.wasInit /\ ~last.libOk) =>
    /\ last.outcome = "error"
    /\ Words(last.text) \cap NameWords(last.op) # {}
    /\ LibMessage \in Words(last.text)

(***************************************************************************)
(* The resolver under fair scheduling.  A load that has started keeps      *)
(* going: the code after an await resumes once the awaited promise has     *)
(* settled, and the synchronous stages follow without a caller's help.     *)
(* Whether loadSecrets() is called at all is left to the caller.           *)
(***************************************************************************)

LiveInit ==
  /\ env \in AdapterEnvSpace
  /\ RInitState
  /\ AInitState
  /\ QIdle
  /\ ScriptIdle
  /\ HistIdle

LoadFairness ==
  /\ \A i \in 1..4 : WF_vars(SecretFetched(i))
  /\ WF_vars(GCloudConfigStage)
  /\ WF_vars(LoadFromEnvironmentStage)

LiveSpec == LiveInit /\ [][Next]_vars /\ LoadFairness

\* The positions of a load that has started and not yet completed.
Loading == {"sm1", "sm2", "sm3", "sm4", "cli", "env"}

\* The two orders in which the stages of one load may start and finish.
StageOrders ==
  { <<"store+", "store-", "cli+", "cli-", "env+", "env-">>,
    <<"cli+", "cli-", "env+", "env-">> }

IsPrefix(s, t) == Len(s) <= Len(t) /\ SubSeq(t, 1, Len(s)) = s

\* C18: the stages of a load start and finish one after another in the order
\* managed store, local CLI, environment; a completed load has run the
\* environment stage; and every load that has started completes.
C18_StagesSequentialAndLoadReturns ==
  /\ [](\E t \in StageOrders : IsPrefix(stageLog, t))
  /\ [](pc = "done" => stageLog \in StageOrders)
  /\ ((pc \in Loading) ~> (pc = "done"))

\* A load completed all three stages although a store fetch was rejected and
\* no stage produced a token.
C18_Witness ==
  /\ pc = "done"
  /\ Len(stageLog) = 6
  /\ \E id \in SecretIdSet : fetched[id].outcome = "reject"
  /\ ~secrets.github.present

\* C19: a load runs the CLI token command only while the source-hosting
\* token is unset.
C19_TokenCommandOnlyWhenUnset == tokenCmd # "set"

\* The constructor's project probe returned a non-empty project identifier.
ProbedProjectId == secrets.gcloud.projectId \in (ProjectOutputs \ {Throw, ""})

\* C20: once the constructor has returned, the store handle exists exactly
\* when the project probe obtained a non-empty identifier, and without the
\* handle no load issues a store fetch.
C20_HandleIffProjectId ==
  pc # "new" =>
    /\ secretClient <=> ProbedProjectId
    /\ ~secretClient => \A id \in SecretIdSet : fetched[id].outcome = "none"

(***************************************************************************)
(* SupabaseIntegration.query: the request it builds                        *)
(***************************************************************************)

MaxLimit == 1

FilterKeys == {"score", "name"}
SupportedOperators == {"eq", "neq", "gt", "gte", "lt", "lte", "like", "ilike", "in"}
OtherOperators == {"between"}

\* The values a filter entry can carry: null, a scalar, an object with a
\* truthy operator field, an object without one.
NullValue == [kind |-> "null", operator |-> Undef, value |-> "null"]
ScalarValue(v) == [kind |-> "scalar", operator |-> Undef, value |-> v]
ObjectValue(o, v) == [kind |-> "object", operator |-> o, value |-> v]
FilterValues ==
  {NullValue, ScalarValue("10"), ObjectValue(Undef, "10")}
    \cup {ObjectValue(o, "10") : o \in SupportedOperators \cup OtherOperators}

\* Object.entries(args.filter): the entries in insertion order, each key once.
FilterEntries == [key : FilterKeys, value : FilterValues]
Filters ==
  {<<>>}
    \cup {<<e>> : e \in FilterEntries}
    \cup {p \in {<<e, f>> : e \in FilterEntries, f \in FilterEntries} : p[1].key # p[2].key}

NoFilter == [given |-> FALSE, entries |-> <<>>]
NoOrderBy == [given |-> FALSE, column |-> Undef, ascending |-> Undef]
NoLimit == [given |-> FALSE, n |-> 0]

QueryArgsSpace ==
  [op : {"query"},
   table : {"documents"},
   select : {Undef, "id,name"},
   filter : {NoFilter} \cup {[given |-> TRUE, entries |-> f] : f \in Filters},
   orderBy : {NoOrderBy} \cup {[given |-> TRUE, column |-> "score", ascending |-> a] : a \in {Undef, "true", "false"}},
   limit : {NoLimit} \cup {[given |-> TRUE, n |-> n] : n \in 0..MaxLimit}]

\* One call on the request builder.
BuilderCall(m, key, arg, n) == [m |-> m, key |-> key, arg |-> arg, n |-> n]

\* The object a filter entry carries, as the argument of a predicate.
ObjectText(value) == "{value:" \o value.value \o "}"

\* The switch on value.operator with a default branch that applies equality.
OperatorCallsDefaultEq(key, value) ==
  IF value.operator \in SupportedOperators
    THEN <<BuilderCall(value.operator, key, value.value, 0)>>
    ELSE <<BuilderCall("eq", key, value.value, 0)>>

\* The switch on value.operator: one predicate per supported tag, nothing
\* for any other tag.
OperatorCalls(key, value) ==
  IF value.operator \in SupportedOperators
    THEN <<BuilderCall(value.operator, key, value.value, 0)>>
    ELSE <<>>

\* The loop body without the test for null.
EntryCallsNullAsEq(key, value) ==
  IF value.kind = "object" /\ Truthy(value.operator) THEN OperatorCalls(key, value)
  ELSE <<BuilderCall("eq", key, IF value.kind = "object" THEN ObjectText(value) ELSE value.value, 0)>>

\* The body of the loop over the filter entries.
EntryCalls(key, value) ==
  IF value.kind = "null" THEN <<BuilderCall("is", key, "null", 0)>>
  ELSE IF value.kind = "object" /\ Truthy(value.operator) THEN OperatorCalls(key, value)
  ELSE <<BuilderCall("eq", key, IF value.kind = "object" THEN ObjectText(value) ELSE value.value, 0)>>

RECURSIVE FilterCalls(_)
FilterCalls(entries) ==
  IF entries = <<>> THEN <<>>
  ELSE EntryCalls(Head(entries).key, Head(entries).value) \o FilterCalls(Tail(entries))

\* args.orderBy.ascending ?? true
AscendingOrTrue(a) == IF a = Undef THEN "true" ELSE a

\* query(): the calls made on the builder, up to the await.
query(args) ==
  <<BuilderCall("from", args.table, "", 0),
    BuilderCall("select", "", OrElse(args.select, "*"), 0)>>
    \o (IF args.filter.given THEN FilterCalls(args.filter.entries) ELSE <<>>)
    \o (IF args.orderBy.given
          THEN <<BuilderCall("order", args.orderBy.column, AscendingOrTrue(args.orderBy.ascending), 0)>>
          ELSE <<>>)
    \o (IF args.limit.given /\ args.limit.n # 0
          THEN <<BuilderCall("limit", "", "", args.limit.n)>>
          ELSE <<>>)

\* supabase.query(qargs)
QueryCall ==
  /\ pc # "new"
  /\ \E lib \in LibOutcomes :
       LET r == Operate("supabase", "query", lib) IN
         /\ last' = Called("supabase", "query", r.outcome, r.ext, lib = "ok", r.text)
         /\ qcalls' = IF PassesGuard("supabase", "query") THEN query(qargs) ELSE <<>>
  /\ UNCHANGED <<client, octokit, gc, initOk, qargs, script, hist>>
  /\ UNCHANGED rvars

\* An environment that carries the database credentials.
QueryEnvSpace == {e \in AdapterEnvSpace : Truthy(e["SUPABASE_URL"]) /\ Truthy(e["SUPABASE_ANON_KEY"])}

QueryInit ==
  /\ env \in QueryEnvSpace
  /\ RInitState
  /\ AInitState
  /\ qargs \in QueryArgsSpace
  /\ qcalls = <<>>
  /\ ScriptIdle
  /\ HistIdle

\* The resolver on a machine without gcloud.
QConstructor == ConstructorWith({Throw}, {""}, {"false"}, {"ok"}) /\ UNCHANGED <<avars, qvars, script, hist>>

QueryNext ==
  \/ QConstructor
  \/ ALoadSecrets
  \/ LoadFromEnvironmentStage
  \/ LoadSecretsReturned
  \/ SupabaseInitializeCall
  \/ QueryCall

QuerySpec == QueryInit /\ [][QueryNext]_vars

\* query() went past its guard and built a request from qargs.
QueryBuilt == qcalls # <<>>

\* The methods of the builder that apply a predicate to a column.
PredicateMethods == SupportedOperators \cup {"is"}

\* The positions of qcalls that apply a predicate to this key.
PredicatesOn(key) == {j \in DOMAIN qcalls : qcalls[j].m \in PredicateMethods /\ qcalls[j].key = key}

\* The entries of the filter of qargs, by position.
Entries == qargs.filter.entries

\* C12: every filter entry whose value is null becomes an "is null" predicate
\* on its key, and no equality predicate is applied to that key.
C12_NullBecomesIsNull ==
  QueryBuilt =>
    \A i \in DOMAIN Entries :
      Entries[i].value.kind = "null" =>
        /\ \E j \in PredicatesOn(Entries[i].key) : qcalls[j] = BuilderCall("is", Entries[i].key, "null", 0)
        /\ \A j \in PredicatesOn(Entries[i].key) : qcalls[j].m # "eq"

\* A built query whose filter carries a null next to another entry.
C12_Witness ==
  /\ QueryBuilt
  /\ Len(Entries) = 2
  /\ \E i \in DOMAIN Entries : Entries[i].value.kind = "null"
  /\ \E i \in DOMAIN Entries : Entries[i].value.kind = "scalar"

\* The value of the entry is an object whose operator field is set.
Tagged(e) == e.value.kind = "object" /\ Truthy(e.value.operator)

\* C13: a value tagged with a supported operator applies exactly that
\* predicate with the tagged value on its key; a value tagged with any other
\* operator applies no predicate on its key; a scalar applies exactly one
\* equality predicate with the scalar.  Every entry is treated so whatever
\* the other entries of the map are.
C13_OperatorDispatch ==
  QueryBuilt =>
    \A i \in DOMAIN Entries :
      LET e == Entries[i] IN
        /\ (Tagged(e) /\ e.value.operator \in SupportedOperators) =>
             /\ Cardinality(PredicatesOn(e.key)) = 1
             /\ \A j \in PredicatesOn(e.key) : qcalls[j] = BuilderCall(e.value.operator, e.key, e.value.value, 0)
        /\ (Tagged(e) /\ e.value.operator \notin SupportedOperators) =>
             PredicatesOn(e.key) = {}
        /\ e.value.kind = "scalar" =>
             /\ Cardinality(PredicatesOn(e.key)) = 1
             /\ \A j \in PredicatesOn(e.key) : qcalls[j] = BuilderCall("eq", e.key, e.value.value, 0)

\* A built query whose filter has an unsupported tag on one key and the
\* gte tag on the other: the second predicate is applied alone.
C13_Witness ==
  /\ QueryBuilt
  /\ Len(Entries) = 2
  /\ Tagged(Entries[1]) /\ Entries[1].value.operator \in OtherOperators
  /\ Tagged(Entries[2]) /\ Entries[2].value.operator = "gte"
  /\ \E j \in DOMAIN qcalls : qcalls[j] = BuilderCall("gte", Entries[2].key, "10", 0)

\* The position of a key among the entries of the filter.
EntryIndex(key) == CHOOSE i \in DOMAIN Entries : Entries[i].key = key

\* C14: the predicates are applied in the order of the filter's entries, the
\* ordering comes after every predicate and is ascending unless the direction
\* says otherwise, the limit comes after the ordering and the predicates, and
\* every given limit, 0 included, is applied.
C14_FiltersThenOrderThenLimit ==
  QueryBuilt =>
    LET preds == {j \in DOMAIN qcalls : qcalls[j].m \in PredicateMethods}
        orders == {j \in DOMAIN qcalls : qcalls[j].m = "order"}
        limits == {j \in DOMAIN qcalls : qcalls[j].m = "limit"}
    IN /\ \A j \in preds : \A k \in preds :
            j < k => EntryIndex(qcalls[j].key) < EntryIndex(qcalls[k].key)
       /\ \A j \in preds : \A k \in orders \cup limits : j < k
       /\ \A j \in orders : \A k \in limits : j < k
       /\ IF qargs.orderBy.given
            THEN \E j \in orders :
                   /\ orders = {j}
                   /\ qcalls[j].key = qargs.orderBy.column
                   /\ qcalls[j].arg = (IF qargs.orderBy.ascending = "false" THEN "false" ELSE "true")
            ELSE orders = {}
       /\ IF qargs.limit.given
            THEN \E j \in limits : limits = {j} /\ qcalls[j].n = qargs.limit.n
            ELSE limits = {}

(***************************************************************************)
(* setup.sh and setup_repos.sh                                             *)
(***************************************************************************)

\* The array of setup_repos.sh, word by word as the shell reads it: the
\* comma after the fifth string is part of that word.
REPOS == <<"pulse", "pulse-ui", "pulse-apis", "pulse-type-registry", "terraform-gcp,", "n8n-sync">>

\* The six repositories of the project.
ExpectedRepos == {"pulse", "pulse-ui", "pulse-apis", "pulse-type-registry", "terraform-gcp", "n8n-sync"}

CloneOutcomes == {"ok", "fail"}
MktempOutcomes == {"ok", "fail"}

\* The helper setup.sh installs: store --file=${TEMP_CREDS}
TempHelper == "store --file=/tmp/tmp.creds"

\* The test of line 11 with the token alone left out.
CredentialsMissingUsernameOnly(username, token) == ~Truthy(username)

\* [[ -z "${GITHUB_USERNAME:-}" || -z "${GITHUB_TOKEN:-}" ]]
CredentialsMissing(username, token) == ~Truthy(username) \/ ~Truthy(token)

\* $(git config --global --get credential.helper || true): the text printed,
\* empty when the setting is unset.
GitConfigGet(helper) == IF helper = Undef THEN "" ELSE helper

\* The setting after the branch of cleanup(): the saved text is written back
\* when it is not empty, otherwise the setting is removed.
CleanupHelper(orig) == IF orig # "" THEN orig ELSE Undef

\* The script ends with this status: through the EXIT trap when it is
\* installed, at once otherwise.
Exit(s, status) ==
  [s EXCEPT !.pc = IF s.trap THEN "cleanup" ELSE "exited", !.status = status]

\* A script about to run: which script, its environment, the machine's
\* global credential.helper and the directories of the target directory.
ScriptStart(entry, username, token, helper, dirs) ==
  [entry |-> entry,
   pc |-> IF entry = "setup" THEN "check" ELSE "repos",
   username |-> username, token |-> token,
   helper0 |-> helper, helper |-> helper, origHelper |-> "",
   tempCreds |-> FALSE, madeCreds |-> FALSE, trap |-> FALSE, installed |-> FALSE,
   dirs0 |-> dirs, dirs |-> dirs, i |-> 1,
   attempted |-> <<>>, skipped |-> <<>>, cloneStarted |-> FALSE,
   status |-> "running"]

ScriptStep(s) ==
  /\ script' = s
  /\ UNCHANGED <<rvars, avars, qvars, hist>>

\* setup.sh lines 11-14
CheckEnvironment ==
  /\ script.pc = "check"
  /\ ScriptStep(IF CredentialsMissing(script.username, script.token)
                  THEN Exit(script, "1")
                  ELSE [script EXCEPT !.pc = "preserve"])

\* setup.sh lines 17-18
PreserveHelper ==
  /\ script.pc = "preserve"
  /\ \E out \in MktempOutcomes :
       LET s == [script EXCEPT !.origHelper = GitConfigGet(script.helper)] IN
         ScriptStep(IF out = "ok"
                      THEN [s EXCEPT !.tempCreds = TRUE, !.madeCreds = TRUE, !.pc = "trap"]
                      ELSE Exit(s, "1"))

\* setup.sh line 28
InstallTrap ==
  /\ script.pc = "trap"
  /\ ScriptStep([script EXCEPT !.trap = TRUE, !.pc = "store"])

\* setup.sh line 31
StoreCredentials ==
  /\ script.pc = "store"
  /\ ScriptStep([script EXCEPT !.pc = "helper"])

\* setup.sh line 32
SetHelper ==
  /\ script.pc = "helper"
  /\ ScriptStep([script EXCEPT !.helper = TempHelper, !.installed = TRUE, !.pc = "repos"])

\* setup_repos.sh up to the loop
StartRepos ==
  /\ script.pc = "repos"
  /\ ScriptStep([script EXCEPT !.cloneStarted = TRUE, !.i = 1, !.pc = "loop"])

\* One turn of the loop of setup_repos.sh.  Under set -e a failing git clone
\* ends the script with git's status.
CloneStep ==
  /\ script.pc = "loop"
  /\ script.i <= Len(REPOS)
  /\ LET repo == REPOS[script.i] IN
       IF repo \in script.dirs
         THEN ScriptStep([script EXCEPT !.skipped = Append(@, repo), !.i = @ + 1])
         ELSE \E out \in CloneOutcomes :
                LET s == [script EXCEPT !.attempted = Append(@, repo)] IN
                  ScriptStep(IF out = "ok"
                               THEN [s EXCEPT !.dirs = @ \cup {repo}, !.i = @ + 1]
                               ELSE Exit(s, "128"))

\* setup_repos.sh after the loop
FinishRepos ==
  /\ script.pc = "loop"
  /\ script.i > Len(REPOS)
  /\ ScriptStep(Exit(script, "0"))

\* cleanup(), run by the EXIT trap
cleanup ==
  /\ script.pc = "cleanup"
  /\ ScriptStep([script EXCEPT !.helper = CleanupHelper(script.origHelper),
                               !.tempCreds = FALSE, !.pc = "exited"])

ScriptInit ==
  /\ env \in QueryEnvSpace
  /\ RInitState
  /\ AInitState
  /\ QIdle
  /\ HistIdle
  /\ script \in {ScriptStart(entry, username, token, helper, dirs) :
                   entry \in {"setup", "repos"},
                   username \in {Undef, "", "alice"},
                   token \in {Undef, "", "ghp_token"},
                   helper \in {Undef, "", "osxkeychain"},
                   dirs \in {d \in SUBSET ExpectedRepos : Cardinality(d) <= 1}}

ScriptNext ==
  \/ CheckEnvironment
  \/ PreserveHelper
  \/ InstallTrap
  \/ StoreCredentials
  \/ SetHelper
  \/ StartRepos
  \/ CloneStep
  \/ FinishRepos
  \/ cleanup

ScriptSpec == ScriptInit /\ [][ScriptNext]_vars

\* The script has ended.
Exited == script.pc = "exited"

\* The members of a sequence.
Range(seq) == {seq[j] : j \in DOMAIN seq}

\* C15: when the target directory holds exactly one of the six repositories,
\* a run of the clone script skips that repository only and attempts a clone
\* of each of the other five.
C15_SkipsOnlyExistingRepository ==
  (Exited /\ script.cloneStarted /\ Cardinality(script.dirs0) = 1) =>
    /\ Range(script.skipped) = script.dirs0
    /\ Range(script.attempted) = ExpectedRepos \ script.dirs0

\* C16: when a run of setup.sh that installed the temporary helper has
\* ended, the global credential.helper is what it was before the run (unset
\* if it was unset) and the temporary credentials file is gone.
C16_HelperRestoredOnExit ==
  (Exited /\ script.installed) =>
    /\ script.helper = script.helper0
    /\ ~script.tempCreds

\* C17: a run of setup.sh with GITHUB_USERNAME or GITHUB_TOKEN unset or
\* empty ends with a non-zero status, leaves the global credential.helper
\* alone, creates no credentials file and does not start the clone step.
C17_RequiresUsernameAndToken ==
  (script.pc # "none" /\ script.entry = "setup" /\ script.pc # "check"
     /\ (script.username \in {Undef, ""} \/ script.token \in {Undef, ""})) =>
    /\ Exited
    /\ script.status \notin {"0", "running"}
    /\ script.helper = script.helper0
    /\ ~script.installed
    /\ ~script.madeCreds
    /\ ~script.cloneStarted
    /\ script.attempted = <<>>

\* setup.sh has ended at its environment check: the user name is set and
\* the token is empty.
C17_Witness ==
  /\ Exited
  /\ script.entry = "setup"
  /\ Truthy(script.username)
  /\ script.token = ""
  /\ script.status = "1"

(***************************************************************************)
(* The resolver with the answers of its sources kept in hist, and with an  *)
(* environment that may change between two loads.                          *)
(***************************************************************************)

\* The step of initializeGCloud that raised: the project command, the
\* credentials-path command, the credentials-file test, the construction of
\* the store client, or none.
ProbeFailure(projectOut, adcOut, existsOut, ctorOut) ==
  IF projectOut = Throw THEN "project"
  ELSE IF ~Truthy(projectOut) THEN "none"
  ELSE IF adcOut = Throw THEN "adc"
  ELSE IF Truthy(adcOut) /\ existsOut = Throw THEN "exists"
  ELSE IF ctorOut = Throw THEN "ctor"
  ELSE "none"

TracedInit ==
  /\ env \in AdapterEnvSpace
  /\ RInitState
  /\ AInitState
  /\ QIdle
  /\ ScriptIdle
  /\ hist = [kept |-> TRUE, probeFailed |-> "none", probeProject |-> Undef,
             tokenAtStart |-> Undef, projectAtStart |-> Undef, cliToken |-> "none"]

\* new SecretsManager()
TConstructor ==
  /\ \E projectOut \in ProjectOutputs, adcOut \in AdcOutputs, existsOut \in ExistsOutcomes, ctorOut \in CtorOutcomes :
       /\ ConstructorWith({projectOut}, {adcOut}, {existsOut}, {ctorOut})
       /\ hist' = [hist EXCEPT !.probeFailed = ProbeFailure(projectOut, adcOut, existsOut, ctorOut),
                               !.probeProject = projectOut]
  /\ UNCHANGED <<avars, qvars, script>>

\* loadSecrets() is called.
TLoadSecrets ==
  /\ \E tokenOut \in TokenOutputs :
       /\ LoadSecretsWith({tokenOut})
       /\ hist' = [hist EXCEPT !.tokenAtStart = secrets.github.token,
                               !.projectAtStart = secrets.gcloud.projectId,
                               !.cliToken = IF secretClient /\ Truthy(secrets.gcloud.projectId)
                                              THEN "none" ELSE tokenOut]
  /\ UNCHANGED <<avars, qvars, script>>

\* loadFromGCloudConfig after the managed-store stage.
TGCloudConfigStage ==
  /\ \E tokenOut \in TokenOutputs :
       /\ GCloudConfigStageWith({tokenOut})
       /\ hist' = [hist EXCEPT !.cliToken = tokenOut]
  /\ UNCHANGED <<avars, qvars, script>>

\* process.env is changed while no load is running.
EnvironmentChanged ==
  /\ pc = "idle"
  /\ env' \in AdapterEnvSpace \ {env}
  /\ UNCHANGED <<secrets, secretClient, pc, fetched, cliWorked, raised, stageLog, tokenCmd>>
  /\ UNCHANGED <<avars, qvars, script, hist>>

TracedNext ==
  \/ TConstructor
  \/ TLoadSecrets
  \/ \E i \in 1..4 : SecretFetched(i)
  \/ TGCloudConfigStage
  \/ LoadFromEnvironmentStage
  \/ LoadSecretsReturned
  \/ EnvironmentChanged

TracedSpec == TracedInit /\ [][TracedNext]_vars

\* C21: when the project command, the credentials-path command or the
\* credentials-file test of the constructor's probe fails, the snapshot has
\* no gcloud record when the constructor returns: getGCloudConfig() is
\* undefined and hasGCloud() is false.
C21_ProbeFailureLeavesGCloudUnset ==
  [][(pc = "new" /\ pc' = "idle" /\ hist'.probeFailed \in {"project", "adc", "exists"}) =>
       (~getGCloudConfig'.present /\ ~hasGCloud')]_vars

CliStageStep == pc \in {"idle", "cli"} /\ pc' \in {"env", "done"}
EnvStageStep == pc = "env" /\ pc' = "done"

C24_StorePopulationRule ==
  [][/\ (pc \in {"sm1", "sm2"}) => (secrets'.supabase = secrets.supabase /\ secrets'.github = secrets.github)
     /\ (pc = "sm3" /\ pc' # "sm3") =>
          /\ secrets'.github = secrets.github
          /\ IF StoreResolved("supabase-url") /\ StoreResolved("supabase-anon-key")
               THEN secrets'.supabase =
                      MkSupabase(StoreValue("supabase-url"), StoreValue("supabase-anon-key"),
                                 IF fetched'["supabase-service-role-key"].outcome = "value"
                                   THEN StoreValue("supabase-service-role-key")
                                   ELSE secrets'.supabase.serviceRoleKey)
                    /\ (fetched'["supabase-service-role-key"].outcome # "value"
                          => ~Truthy(secrets'.supabase.serviceRoleKey))
               ELSE secrets'.supabase = secrets.supabase
     /\ (pc = "sm4" /\ pc' # "sm4") =>
          /\ secrets'.supabase = secrets.supabase
          /\ IF fetched'["github-token"].outcome = "value"
               THEN secrets'.github = MkGitHub(StoreValue("github-token"))
               ELSE secrets'.github = secrets.github]_vars

\* The stage has set the record from the store's url and key although the
\* fetch of the service-role key was rejected.
C24_Witness ==
  /\ pc = "sm4"
  /\ StoreResolved("supabase-url") /\ StoreResolved("supabase-anon-key")
  /\ fetched["supabase-service-role-key"].outcome = "reject"
  /\ getSupabaseConfig = MkSupabase(StoreValue("supabase-url"), StoreValue("supabase-anon-key"), Undef)

\* C25: isAvailable() of an adapter changes only in a call of that adapter's
\* own initialize(): no step of the resolver and no call on another adapter
\* changes it.  So an adapter whose initialize() returned false before the
\* load stays unavailable after it, and an available adapter stays available
\* across later loads.
C25_AvailabilityChangesOnlyInInitialize ==
  [][\A a \in Adapters :
       (isAvailable(a)' # isAvailable(a)) => (last'.adapter = a /\ last'.op = "initialize")]_vars

\* The github adapter's initialize() returned false before the resolver had
\* a token; a load has now supplied the token and the adapter is still
\* unavailable.
C25_Witness ==
  /\ pc = "done"
  /\ hasGitHub
  /\ ~isAvailable("github")
  /\ last.adapter = "github" /\ last.op = "initialize" /\ last.outcome = "false"
  /\ ~last.hadCred

\* A supabase record made of the store's values alone: its url and anon key,
\* and its service-role key or none.
AllFromStore(r) ==
  /\ r.url = StoreValue("supabase-url")
  /\ r.anonKey = StoreValue("supabase-anon-key")
  /\ r.serviceRoleKey \in {StoreValue("supabase-service-role-key"), Undef, ""}

\* A supabase record made of the environment's values alone, the anon key
\* empty when SUPABASE_ANON_KEY is not set.
AllFromEnvironment(r) ==
  /\ r.url = env["SUPABASE_URL"]
  /\ r.anonKey = OrElse(env["SUPABASE_ANON_KEY"], "")
  /\ r.serviceRoleKey = env["SUPABASE_SERVICE_ROLE_KEY"]

\* C26: a supabase record is made of the store's values alone or of the
\* environment's values alone.  A store record without a service-role key
\* keeps none whatever SUPABASE_SERVICE_ROLE_KEY is, and a store url or anon
\* key that resolved without the other is in no record.
C26_SingleSourceRecord ==
  getSupabaseConfig.present => (AllFromStore(getSupabaseConfig) \/ AllFromEnvironment(getSupabaseConfig))

\* A load has finished: the store resolved url and anon key and no
\* service-role key, SUPABASE_SERVICE_ROLE_KEY is set, and the record has no
\* service-role key.
C26_Witness ==
  /\ pc = "done"
  /\ StoreResolved("supabase-url") /\ StoreResolved("supabase-anon-key")
  /\ ~StoreResolved("supabase-service-role-key")
  /\ Truthy(env["SUPABASE_SERVICE_ROLE_KEY"])
  /\ getSupabaseConfig.url = StoreValue("supabase-url")
  /\ ~Truthy(getSupabaseConfig.serviceRoleKey)

\* C27: no step of the resolver, and no change of the environment between
\* loads, takes a sub-record out of the snapshot or turns hasSupabase(),
\* hasGitHub() or hasGCloud() from true to false.
C27_AvailabilityMonotone ==
  [][/\ hasSupabase => hasSupabase'
     /\ hasGitHub => hasGitHub'
     /\ hasGCloud => hasGCloud'
     /\ secrets.supabase.present => secrets'.supabase.present
     /\ secrets.github.present => secrets'.github.present
     /\ secrets.gcloud.present => secrets'.gcloud.present]_vars

\* A later load has finished in which the store rejected the fetches, the
\* token command failed and the environment has lost its variables, and all
\* three predicates are still true.
C27_Witness ==
  /\ pc = "done"
  /\ Truthy(hist.tokenAtStart)
  /\ fetched["supabase-url"].outcome = "reject"
  /\ fetched["github-token"].outcome = "reject"
  /\ hist.cliToken = Throw
  /\ \A n \in EnvNames : env[n] = Undef
  /\ hasSupabase /\ hasGitHub /\ hasGCloud

(***************************************************************************)
(* The resolver loaded again with sources that answer as they did in the   *)
(* first load: hist keeps the answers of the first load and the snapshot   *)
(* it left, and every later load is given the same answers.                *)
(***************************************************************************)

ReplayInit ==
  /\ env \in AdapterEnvSpace
  /\ RInitState
  /\ AInitState
  /\ QIdle
  /\ ScriptIdle
  /\ hist = [kept |-> TRUE, phase |-> "first", store |-> [i \in 1..4 |-> "none"],
             token |-> "none", snapshot |-> secrets]

\* loadSecrets() is called.
RLoadSecrets ==
  /\ IF hist.phase = "first"
       THEN \E tokenOut \in TokenOutputs :
              /\ LoadSecretsWith({tokenOut})
              /\ hist' = [hist EXCEPT !.token = IF secretClient /\ Truthy(secrets.gcloud.projectId)
                                                  THEN "none" ELSE tokenOut]
       ELSE /\ LoadSecretsWith(IF hist.token = "none" THEN TokenOutputs ELSE {hist.token})
            /\ UNCHANGED hist
  /\ UNCHANGED <<avars, qvars, script>>

\* The answer to fetch number i arrives.
RSecretFetched(i) ==
  /\ IF hist.phase = "first"
       THEN \E outcome \in StoreOutcomes :
              /\ SecretFetchedWith(i, {outcome})
              /\ hist' = [hist EXCEPT !.store[i] = outcome]
       ELSE /\ SecretFetchedWith(i, {hist.store[i]})
            /\ UNCHANGED hist
  /\ UNCHANGED <<avars, qvars, script>>

\* loadFromGCloudConfig after the managed-store stage.
RGCloudConfigStage ==
  /\ IF hist.phase = "first"
       THEN \E tokenOut \in TokenOutputs :
              /\ GCloudConfigStageWith({tokenOut})
              /\ hist' = [hist EXCEPT !.token = tokenOut]
       ELSE /\ GCloudConfigStageWith({hist.token})
            /\ UNCHANGED hist
  /\ UNCHANGED <<avars, qvars, script>>

\* The caller of loadSecrets() continues; the snapshot the first load left
\* is kept.
RLoadSecretsReturned ==
  /\ LoadReturned
  /\ hist' = IF hist.phase = "first"
               THEN [hist EXCEPT !.phase = "replay", !.snapshot = secrets]
               ELSE hist
  /\ UNCHANGED <<avars, qvars, script>>

ReplayNext ==
  \/ Constructor
  \/ RLoadSecrets
  \/ \E i \in 1..4 : RSecretFetched(i)
  \/ RGCloudConfigStage
  \/ LoadFromEnvironmentStage
  \/ RLoadSecretsReturned

ReplaySpec == ReplayInit /\ [][ReplayNext]_vars

\* C28: when a later load, given the answers the first load was given, has
\* finished, the snapshot is the one the first load left.
C28_LoadSecretsIdempotent ==
  (hist.phase = "replay" /\ pc = "done") => secrets = hist.snapshot

\* A second load has finished after a first load in which the store
\* resolved the token and the environment supplied the supabase record.
C28_Witness ==
  /\ hist.phase = "replay"
  /\ pc = "done"
  /\ hist.store[4] = "value"
  /\ getGitHubToken = StoreValue("github-token")
  /\ hasSupabase /\ getSupabaseConfig.url = env["SUPABASE_URL"]
  /\ secrets = hist.snapshot

(***************************************************************************)
(* SupabaseIntegration.update and delete: the requests they build          *)
(***************************************************************************)

\* A filter value as the argument of eq(): the value itself, whatever it is.
ValueText(value) ==
  CASE value.kind = "null" -> "null"
    [] value.kind = "scalar" -> value.value
    [] value.kind = "object" -> "{operator:" \o value.operator \o ",value:" \o value.value \o "}"

\* The loop over the filter entries with the body of query()'s loop.
EqCallsAsInQuery(entries) == FilterCalls(entries)

\* The loop of update() and delete(): query.eq(key, value) for every entry.
EqCalls(entries) ==
  [i \in 1..Len(entries) |-> BuilderCall("eq", entries[i].key, ValueText(entries[i].value), 0)]

RowData == "{done:true}"

\* update(): the calls made on the builder, up to the await.
update(args) ==
  <<BuilderCall("from", args.table, "", 0), BuilderCall("update", "", args.data, 0)>>
    \o EqCalls(args.filter.entries)
    \o <<BuilderCall("select", "", "", 0)>>

\* delete(): the calls made on the builder, up to the await.
delete(args) ==
  <<BuilderCall("from", args.table, "", 0), BuilderCall("delete", "", "", 0)>>
    \o EqCalls(args.filter.entries)
    \o <<BuilderCall("select", "", "", 0)>>

\* The arguments of update() and delete(); the filter is a required field.
MutationArgsSpace ==
  [op : {"update"}, table : {"documents"}, data : {RowData},
   filter : {[given |-> TRUE, entries |-> f] : f \in Filters}]
    \cup [op : {"delete"}, table : {"documents"}, data : {Undef},
          filter : {[given |-> TRUE, entries |-> f] : f \in Filters}]

\* supabase.update(qargs) or supabase.delete(qargs)
MutationCall ==
  /\ pc # "new"
  /\ \E lib \in LibOutcomes :
       LET r == Operate("supabase", qargs.op, lib) IN
         /\ last' = Called("supabase", qargs.op, r.outcome, r.ext, lib = "ok", r.text)
         /\ qcalls' = IF ~PassesGuard("supabase", qargs.op) THEN <<>>
                      ELSE IF qargs.op = "update" THEN update(qargs)
                      ELSE delete(qargs)
  /\ UNCHANGED <<client, octokit, gc, initOk, qargs, script, hist>>
  /\ UNCHANGED rvars

MutationInit ==
  /\ env \in QueryEnvSpace
  /\ RInitState
  /\ AInitState
  /\ qargs \in MutationArgsSpace
  /\ qcalls = <<>>
  /\ ScriptIdle
  /\ HistIdle

MutationNext ==
  \/ QConstructor
  \/ ALoadSecrets
  \/ LoadFromEnvironmentStage
  \/ LoadSecretsReturned
  \/ SupabaseInitializeCall
  \/ MutationCall

MutationSpec == MutationInit /\ [][MutationNext]_vars

\* C29: update() and delete() apply one equality predicate per filter entry,
\* in the order of the entries and with the entry's value as it is, null and
\* operator-tagged values included, between the update or delete call and the
\* closing select; with an empty filter no predicate is applied.
C29_UpdateDeleteFilterByEquality ==
  QueryBuilt =>
    /\ Len(qcalls) = Len(Entries) + 3
    /\ qcalls[1].m = "from"
    /\ qcalls[2].m = qargs.op
    /\ qcalls[Len(qcalls)].m = "select"
    /\ \A i \in DOMAIN Entries :
         /\ qcalls[i + 2].m = "eq"
         /\ qcalls[i + 2].key = Entries[i].key
         /\ qcalls[i + 2].arg = ValueText(Entries[i].value)

\* update() has built its request from a filter with a null and a value
\* tagged gte: both are compared by equality.
C29_Witness ==
  /\ QueryBuilt
  /\ qargs.op = "update"
  /\ Len(Entries) = 2
  /\ Entries[1].value.kind = "null"
  /\ Tagged(Entries[2]) /\ Entries[2].value.operator = "gte"
  /\ qcalls[3] = BuilderCall("eq", Entries[1].key, "null", 0)
  /\ qcalls[4].m = "eq"

====
